---- MODULE Spec2Model ----
(***************************************************************************)
(* Achievement Management System: the Flask route handlers of app.py and   *)
(* the SQLAlchemy tables of models.py as a state machine.                  *)
(*                                                                         *)
(* Encoding of Python values:                                              *)
(*   - identifiers, e-mails, names, passwords are TLA+ strings; a form     *)
(*     field that is absent is a key missing from the form's DOMAIN, and   *)
(*     request.form.get then yields None;                                  *)
(*   - texts that the code takes apart (file names, team_size,             *)
(*     achievement_date) are tuples of one-character strings;              *)
(*   - a stored password string is the tuple of its "$"-separated parts;   *)
(*   - a column holds a tuple: << >> is NULL, <<v>> the value v.           *)
(***************************************************************************)
EXTENDS Integers, Sequences, FiniteSets, TLC

VARIABLES
    students,       \* rows of table "student"
    teachers,       \* rows of table "teacher"
    achievements,   \* rows of table "achievements", in insertion order
    uploads,        \* names of the files present in UPLOAD_FOLDER
    session,        \* the browser's Flask session: key -> value
    now,            \* datetime.datetime.now(): [year, month, day, tick]
    resp,           \* what the last request returned
    inflight        \* registration requests being served: worker -> position

vars == <<students, teachers, achievements, uploads, session, now, resp, inflight>>

-----------------------------------------------------------------------------
(* Python values *)

None == "None"

Get(form, key) == IF key \in DOMAIN form THEN form[key] ELSE None

Truthy(v) == v # None /\ v # ""

Without(form, key) == [k \in DOMAIN form \ {key} |-> form[k]]

EmptyMapping == [k \in {} |-> None]

\* a column value, and the Python value read back from a column
Col(v) == IF v = None THEN << >> ELSE <<v>>

Val(col) == IF col = << >> THEN None ELSE col[1]

-----------------------------------------------------------------------------
(* Password security module, app.py 38-83 *)

Salts == {"x7Qa"}

\* faulty variant: the password is stored as it was typed
generate_password_hash_Plain(plain_password, salt) == <<plain_password>>

generate_password_hash(plain_password, salt) ==
    <<"scrypt", salt, <<salt, plain_password>> >>

\* faulty variant: the empty-password test is missing
hash_password_AllowsEmpty(plain_password, salt) ==
    [raised |-> "",
     value |-> generate_password_hash(IF plain_password = None THEN "" ELSE plain_password,
                                      salt)]

hash_password(plain_password, salt) ==
    IF plain_password = None \/ plain_password = ""
    THEN [raised |-> "ValueError", value |-> << >>]
    ELSE [raised |-> "", value |-> generate_password_hash(plain_password, salt)]

check_password_hash(pwhash, password) ==
    /\ Len(pwhash) = 3
    /\ pwhash[3] = <<pwhash[2], password>>

\* faulty variants of verify_password, used to show that the login
\* properties depend on it
verify_password_RejectAll(stored_hash, provided_password) == FALSE

verify_password_AcceptAll(stored_hash, provided_password) ==
    stored_hash # << >> /\ provided_password # None

verify_password(stored_hash, provided_password) ==
    IF stored_hash = << >> \/ provided_password = None THEN FALSE
    ELSE IF stored_hash = <<"">> \/ provided_password = "" THEN FALSE
    ELSE check_password_hash(stored_hash, provided_password)

-----------------------------------------------------------------------------
(* Texts as tuples of characters, and the str methods the handlers use *)

Digit == [c \in {"0", "1", "2", "3", "4", "5", "6", "7", "8", "9"} |->
            CASE c = "0" -> 0 [] c = "1" -> 1 [] c = "2" -> 2 [] c = "3" -> 3
              [] c = "4" -> 4 [] c = "5" -> 5 [] c = "6" -> 6 [] c = "7" -> 7
              [] c = "8" -> 8 [] c = "9" -> 9]

IsDigit(c) == c \in DOMAIN Digit

DigitChar(n) == CHOOSE c \in DOMAIN Digit : Digit[c] = n

Upper == <<"A", "B", "C", "D", "E", "F", "G", "H", "I", "J", "K", "L", "M",
           "N", "O", "P", "Q", "R", "S", "T", "U", "V", "W", "X", "Y", "Z">>

Lower == <<"a", "b", "c", "d", "e", "f", "g", "h", "i", "j", "k", "l", "m",
           "n", "o", "p", "q", "r", "s", "t", "u", "v", "w", "x", "y", "z">>

IsLetter(c) == \E i \in 1..26 : c = Upper[i] \/ c = Lower[i]

\* str.lower(), one character
lower_char(c) ==
    IF \E i \in 1..26 : Upper[i] = c
    THEN Lower[CHOOSE i \in 1..26 : Upper[i] = c]
    ELSE c

\* str.lower()
lower(text) == [i \in 1..Len(text) |-> lower_char(text[i])]

Whitespace == {" ", "\t", "\n"}

\* str.strip(): whitespace removed at both ends
RECURSIVE lstrip(_, _)
lstrip(text, chars) ==
    IF text # << >> /\ Head(text) \in chars THEN lstrip(Tail(text), chars) ELSE text

RECURSIVE rstrip(_, _)
rstrip(text, chars) ==
    IF text # << >> /\ text[Len(text)] \in chars
    THEN rstrip(SubSeq(text, 1, Len(text) - 1), chars)
    ELSE text

strip(text, chars) == rstrip(lstrip(text, chars), chars)

\* the positions of character c in text
Positions(text, c) == {i \in 1..Len(text) : text[i] = c}

Max(S) == CHOOSE x \in S : \A y \in S : y <= x

\* text.rsplit(c, 1)[1], for a text that contains c
rsplit_last(text, c) == SubSeq(text, Max(Positions(text, c)) + 1, Len(text))

\* text.split(c): the parts between the separators
RECURSIVE split(_, _)
split(text, c) ==
    IF Positions(text, c) = {}
    THEN <<text>>
    ELSE LET i == CHOOSE k \in Positions(text, c) :
                      \A j \in Positions(text, c) : k <= j
         IN  <<SubSeq(text, 1, i - 1)>> \o split(SubSeq(text, i + 1, Len(text)), c)

\* the number written by a non-empty tuple of digits
RECURSIVE DigitsValue(_)
DigitsValue(text) ==
    IF text = << >> THEN 0
    ELSE 10 * DigitsValue(SubSeq(text, 1, Len(text) - 1)) + Digit[text[Len(text)]]

AllDigits(text) == text # << >> /\ \A i \in 1..Len(text) : IsDigit(text[i])

\* n written with `width` digits, zero padded (strftime's %Y %m %d %H %M %S)
RECURSIVE zero_padded(_, _)
zero_padded(n, width) ==
    IF width = 0 THEN << >>
    ELSE zero_padded(n \div 10, width - 1) \o <<DigitChar(n % 10)>>

\* int(text): [raised, value]
int(text) ==
    LET t == strip(text, Whitespace)
        body == IF t # << >> /\ Head(t) \in {"+", "-"} THEN Tail(t) ELSE t
        wellFormed ==
            /\ body # << >>
            /\ \A i \in 1..Len(body) :
                  \/ IsDigit(body[i])
                  \/ /\ body[i] = "_"
                     /\ 1 < i /\ i < Len(body)
                     /\ IsDigit(body[i - 1]) /\ IsDigit(body[i + 1])
        magnitude == DigitsValue(SelectSeq(body, IsDigit))
    IN  IF wellFormed
        THEN [raised |-> "", value |-> IF Head(t) = "-" THEN 0 - magnitude ELSE magnitude]
        ELSE [raised |-> "ValueError", value |-> 0]

-----------------------------------------------------------------------------
(* datetime *)

IsLeap(year) == year % 4 = 0 /\ (year % 100 # 0 \/ year % 400 = 0)

DaysInMonth(year, month) ==
    IF month = 2 THEN (IF IsLeap(year) THEN 29 ELSE 28)
    ELSE IF month \in {4, 6, 9, 11} THEN 30 ELSE 31

RECURSIVE DaysBeforeMonth(_, _)
DaysBeforeMonth(year, month) ==
    IF month = 1 THEN 0
    ELSE DaysBeforeMonth(year, month - 1) + DaysInMonth(year, month - 1)

DaysBeforeYear(year) ==
    LET y == year - 1 IN y * 365 + y \div 4 - y \div 100 + y \div 400

\* date.toordinal()
toordinal(date) ==
    DaysBeforeYear(date.year) + DaysBeforeMonth(date.year, date.month) + date.day

\* datetime.date()
date_of(datetime) ==
    [year |-> datetime.year, month |-> datetime.month, day |-> datetime.day]

\* datetime + timedelta(days=1)
next_day(datetime) ==
    IF datetime.day < DaysInMonth(datetime.year, datetime.month)
    THEN [datetime EXCEPT !.day = @ + 1]
    ELSE IF datetime.month < 12
    THEN [datetime EXCEPT !.day = 1, !.month = @ + 1]
    ELSE [datetime EXCEPT !.day = 1, !.month = 1, !.year = @ + 1]

\* the order of datetimes: seconds from 2000-01-01 00:00:00 (the count
\* stays within 32 bits for the years the clock visits)
Epoch == [year |-> 2000, month |-> 1, day |-> 1]

seconds_of(datetime) ==
    (((toordinal(datetime) - toordinal(Epoch)) * 24 + datetime.hour) * 60
        + datetime.minute) * 60 + datetime.second

\* datetime.strftime("%Y%m%d%H%M%S")
strftime(datetime) ==
    zero_padded(datetime.year, 4) \o zero_padded(datetime.month, 2)
        \o zero_padded(datetime.day, 2) \o zero_padded(datetime.hour, 2)
        \o zero_padded(datetime.minute, 2) \o zero_padded(datetime.second, 2)

\* datetime.strptime(text, "%Y-%m-%d").date(): [raised, value]
strptime(text) ==
    LET parts == split(text, "-")
        Y == parts[1]
        m == parts[2]
        d == parts[3]
        \* %d also accepts a space followed by one digit
        dDigits == IF Len(d) = 2 /\ d[1] = " " THEN <<d[2]>> ELSE d
        matches ==
            /\ Len(parts) = 3
            /\ Len(Y) = 4 /\ AllDigits(Y)
            /\ Len(m) \in {1, 2} /\ AllDigits(m) /\ DigitsValue(m) \in 1..12
            /\ Len(d) \in {1, 2} /\ AllDigits(dDigits) /\ DigitsValue(dDigits) \in 1..31
            /\ (Len(d) = 2 /\ d[1] = " ") => d[2] # "0"
        valid ==
            /\ DigitsValue(Y) >= 1
            /\ DigitsValue(dDigits) <= DaysInMonth(DigitsValue(Y), DigitsValue(m))
    IN  IF matches /\ valid
        THEN [raised |-> "",
              value |-> [year |-> DigitsValue(Y), month |-> DigitsValue(m),
                         day |-> DigitsValue(dDigits)]]
        ELSE [raised |-> "ValueError", value |-> [year |-> 1, month |-> 1, day |-> 1]]

-----------------------------------------------------------------------------
(* Upload validation, app.py 92-102 and werkzeug.utils.secure_filename *)

ALLOWED_EXTENSIONS ==
    {<<"p", "d", "f">>, <<"p", "n", "g">>, <<"j", "p", "g">>, <<"j", "p", "e", "g">>}

\* faulty check: the extension is compared without lower()
allowed_file_CaseSensitive(filename) ==
    /\ Positions(filename, ".") # {}
    /\ rsplit_last(filename, ".") \in ALLOWED_EXTENSIONS

allowed_file(filename) ==
    /\ Positions(filename, ".") # {}
    /\ lower(rsplit_last(filename, ".")) \in ALLOWED_EXTENSIONS

\* "_".join(text.split()): runs of whitespace become one "_", none at the ends
RECURSIVE join_words(_)
join_words(text) ==
    LET t == lstrip(text, Whitespace)
    IN  IF t = << >> THEN << >>
        ELSE IF Len(t) > 1 /\ t[2] \in Whitespace
        THEN (IF lstrip(Tail(t), Whitespace) = << >>
              THEN <<Head(t)>>
              ELSE <<Head(t), "_">> \o join_words(Tail(t)))
        ELSE <<Head(t)>> \o join_words(Tail(t))

\* [A-Za-z0-9_.-], the characters _filename_ascii_strip_re keeps
IsFilenameChar(c) == IsLetter(c) \/ IsDigit(c) \/ c \in {"_", ".", "-"}

secure_filename(filename) ==
    LET spaced == [i \in 1..Len(filename) |->
                      IF filename[i] = "/" THEN " " ELSE filename[i]]
    IN  strip(SelectSeq(join_words(spaced), IsFilenameChar), {".", "_"})

UploadsPrefix == <<"u", "p", "l", "o", "a", "d", "s", "/">>

-----------------------------------------------------------------------------
(* Tables, models.py *)

StudentColumns ==
    {"student_name", "student_id", "email", "phone_number", "password",
     "student_gender", "student_dept"}

TeacherColumns ==
    {"teacher_name", "teacher_id", "email", "phone_number", "password",
     "teacher_gender", "teacher_dept"}

\* Student(...) built from the form, with the hashed password
Student(form, hashed_password) ==
    [c \in StudentColumns |->
        IF c = "password" THEN hashed_password ELSE Col(Get(form, c))]

Teacher(form, hashed_password) ==
    [c \in TeacherColumns |->
        IF c = "password" THEN hashed_password ELSE Col(Get(form, c))]

\* faulty constraints: the unique index on email is missing
StudentInsertOk_NoUniqueEmail(table, row) ==
    /\ row.student_id # << >>
    /\ row.student_name # << >>
    /\ row.email # << >>
    /\ row.password # << >>
    /\ \A r \in table : r.student_id # row.student_id

\* primary key, unique and nullable=False constraints of table "student"
StudentInsertOk(table, row) ==
    /\ row.student_id # << >>
    /\ row.student_name # << >>
    /\ row.email # << >>
    /\ row.password # << >>
    /\ \A r \in table : r.student_id # row.student_id /\ r.email # row.email

TeacherInsertOk(table, row) ==
    /\ row.teacher_id # << >>
    /\ row.teacher_name # << >>
    /\ row.email # << >>
    /\ row.password # << >>
    /\ \A r \in table : r.teacher_id # row.teacher_id /\ r.email # row.email

\* the String and Text columns of "achievements" that the form fills
AchievementFormColumns ==
    {"achievement_type", "event_name", "organizer", "position",
     "achievement_description", "symposium_theme", "programming_language",
     "coding_platform", "paper_title", "journal_name", "conference_level",
     "conference_role", "project_title", "database_type", "difficulty_level",
     "other_description"}

AchievementColumns ==
    AchievementFormColumns \cup
        {"id", "student_id", "teacher_id", "achievement_date", "certificate_path",
         "team_size", "created_at"}

\* faulty constructor: a teacher_id field of the form overrides the session's
Achievement_TeacherFromForm(id, student_id, teacher_id, achievement_date, certificate_path, team_size, form, created_at) ==
    [c \in AchievementColumns |->
        CASE c = "id" -> <<id>>
          [] c = "student_id" -> Col(student_id)
          [] c = "teacher_id" ->
                 Col(IF "teacher_id" \in DOMAIN form THEN form["teacher_id"] ELSE teacher_id)
          [] c = "achievement_date" -> <<achievement_date>>
          [] c = "certificate_path" -> certificate_path
          [] c = "team_size" -> team_size
          [] c = "created_at" -> <<created_at>>
          [] OTHER -> Col(Get(form, c))]

\* Achievement(...) as the handler builds it; id and created_at are the
\* column defaults (autoincrement, datetime.utcnow) applied at insert
Achievement(id, student_id, teacher_id, achievement_date, certificate_path, team_size, form, created_at) ==
    [c \in AchievementColumns |->
        CASE c = "id" -> <<id>>
          [] c = "student_id" -> Col(student_id)
          [] c = "teacher_id" -> Col(teacher_id)
          [] c = "achievement_date" -> <<achievement_date>>
          [] c = "certificate_path" -> certificate_path
          [] c = "team_size" -> team_size
          [] c = "created_at" -> <<created_at>>
          [] OTHER -> Col(Get(form, c))]

\* the nullable=False constraints of table "achievements" (SQLite does not
\* enforce the foreign keys: PRAGMA foreign_keys is off by default)
AchievementInsertOk(row) ==
    \A c \in {"student_id", "teacher_id", "achievement_type", "event_name",
              "achievement_date", "organizer", "position"} : row[c] # << >>

\* faulty query: the filter on student_id is dropped
StudentQuery_AnyRow(student_id) == students

\* faulty query: falls back to every row when none matches
StudentQuery_Fallback(student_id) ==
    LET matching == {r \in students : r.student_id = Col(student_id) /\ student_id # None}
    IN  IF matching = {} THEN students ELSE matching

\* Student.query.filter_by(student_id=student_id): the matching rows
StudentQuery(student_id) == {r \in students : r.student_id = Col(student_id) /\ student_id # None}

TeacherQuery(teacher_id) == {r \in teachers : r.teacher_id = Col(teacher_id) /\ teacher_id # None}

-----------------------------------------------------------------------------
(* Session and responses *)

session_get(key) == IF key \in DOMAIN session THEN session[key] ELSE None

\* session.get("logged_in") is truthy: the only value ever stored is True
session_logged_in == "logged_in" \in DOMAIN session /\ session["logged_in"] = TRUE

\* session[k] = v for every k of `items`, the other keys kept
session_set(items) ==
    [k \in DOMAIN session \cup DOMAIN items |->
        IF k \in DOMAIN items THEN items[k] ELSE session[k]]

NoMessage == ""

NoSuccess == << >>

render_template(route, method, template, error, success, context) ==
    [route |-> route, method |-> method, kind |-> "render", target |-> template,
     error |-> error, success |-> success, context |-> context]

\* redirect(url_for(endpoint, **values))
redirect_with(route, method, endpoint, values) ==
    [route |-> route, method |-> method, kind |-> "redirect", target |-> endpoint,
     error |-> NoMessage, success |-> NoSuccess, context |-> values]


redirect(route, method, endpoint) ==
    [route |-> route, method |-> method, kind |-> "redirect", target |-> endpoint,
     error |-> NoMessage, success |-> NoSuccess, context |-> EmptyMapping]

\* an exception that leaves the view function: Flask answers 500
unhandled(route, method, exception) ==
    [route |-> route, method |-> method, kind |-> "exception", target |-> exception,
     error |-> NoMessage, success |-> NoSuccess, context |-> EmptyMapping]

InvalidCredentials == "Invalid credentials. Please try again."
DatabaseError == "A database error occurred. Please try again."
PasswordEmpty == "Password cannot be empty. Please try again."
StudentMissing == "Student ID does not exist in the system."
InvalidFileType == "Invalid file type. Please upload PDF, PNG, JPG, or JPEG files."
DateRequired == "Achievement date is required."
InvalidDateFormat == "Invalid date format. Please use YYYY-MM-DD."
SubmitError == "An error occurred. Please try again."

-----------------------------------------------------------------------------
(* Login and logout, app.py 115-169.  db_up = FALSE: the query raises.       *)

StudentIdentity(student_obj) ==
    [logged_in |-> TRUE,
     student_id |-> Val(student_obj.student_id),
     student_name |-> Val(student_obj.student_name),
     student_dept |-> Val(student_obj.student_dept)]

TeacherIdentity(teacher_obj) ==
    [logged_in |-> TRUE,
     teacher_id |-> Val(teacher_obj.teacher_id),
     teacher_name |-> Val(teacher_obj.teacher_name),
     teacher_dept |-> Val(teacher_obj.teacher_dept)]

student_get ==
    /\ resp' = render_template("/student", "GET", "student.html",
                               NoMessage, NoSuccess, EmptyMapping)
    /\ UNCHANGED <<students, teachers, achievements, uploads, session, now, inflight>>

\* faulty variant: an identifier that is not registered gets its own message
student_post_NamesUnknown(form, db_up) ==
    LET student_id == Get(form, "sname")
        password == Get(form, "password")
        found == StudentQuery(student_id)
        failed(message) ==
            /\ resp' = render_template("/student", "POST", "student.html",
                                        message, NoSuccess, EmptyMapping)
            /\ UNCHANGED session
    IN  /\ IF ~db_up THEN failed(DatabaseError)
           ELSE IF found = {} THEN failed("Unknown student ID.")
           ELSE \E student_obj \in found :
                    IF verify_password(student_obj.password, password)
                    THEN /\ session' = session_set(StudentIdentity(student_obj))
                         /\ resp' = redirect("/student", "POST", "student-dashboard")
                    ELSE failed(InvalidCredentials)
        /\ UNCHANGED <<students, teachers, achievements, uploads, now, inflight>>

student_post(form, db_up) ==
    LET student_id == Get(form, "sname")
        password == Get(form, "password")
        found == StudentQuery(student_id)
        failed ==
            /\ resp' = render_template("/student", "POST", "student.html",
                                        InvalidCredentials, NoSuccess, EmptyMapping)
            /\ UNCHANGED session
    IN  /\ IF ~db_up
           THEN /\ resp' = render_template("/student", "POST", "student.html",
                                           DatabaseError, NoSuccess, EmptyMapping)
                /\ UNCHANGED session
           ELSE IF found = {}
           THEN failed
           ELSE \E student_obj \in found :
                    IF verify_password(student_obj.password, password)
                    THEN /\ session' = session_set(StudentIdentity(student_obj))
                         /\ resp' = redirect("/student", "POST", "student-dashboard")
                    ELSE failed
        /\ UNCHANGED <<students, teachers, achievements, uploads, now, inflight>>

teacher_get ==
    /\ resp' = render_template("/teacher", "GET", "teacher.html",
                               NoMessage, NoSuccess, EmptyMapping)
    /\ UNCHANGED <<students, teachers, achievements, uploads, session, now, inflight>>

\* faulty login: the session is started afresh with the teacher's identity
teacher_post_FreshSession(form, db_up) ==
    LET teacher_id == Get(form, "tname")
        password == Get(form, "password")
        found == TeacherQuery(teacher_id)
        failed ==
            /\ resp' = render_template("/teacher", "POST", "teacher.html",
                                        InvalidCredentials, NoSuccess, EmptyMapping)
            /\ UNCHANGED session
    IN  /\ IF ~db_up
           THEN /\ resp' = render_template("/teacher", "POST", "teacher.html",
                                           DatabaseError, NoSuccess, EmptyMapping)
                /\ UNCHANGED session
           ELSE IF found = {}
           THEN failed
           ELSE \E teacher_obj \in found :
                    IF verify_password(teacher_obj.password, password)
                    THEN /\ session' = TeacherIdentity(teacher_obj)
                         /\ resp' = redirect("/teacher", "POST", "teacher-dashboard")
                    ELSE failed
        /\ UNCHANGED <<students, teachers, achievements, uploads, now, inflight>>

teacher_post(form, db_up) ==
    LET teacher_id == Get(form, "tname")
        password == Get(form, "password")
        found == TeacherQuery(teacher_id)
        failed ==
            /\ resp' = render_template("/teacher", "POST", "teacher.html",
                                        InvalidCredentials, NoSuccess, EmptyMapping)
            /\ UNCHANGED session
    IN  /\ IF ~db_up
           THEN /\ resp' = render_template("/teacher", "POST", "teacher.html",
                                           DatabaseError, NoSuccess, EmptyMapping)
                /\ UNCHANGED session
           ELSE IF found = {}
           THEN failed
           ELSE \E teacher_obj \in found :
                    IF verify_password(teacher_obj.password, password)
                    THEN /\ session' = session_set(TeacherIdentity(teacher_obj))
                         /\ resp' = redirect("/teacher", "POST", "teacher-dashboard")
                    ELSE failed
        /\ UNCHANGED <<students, teachers, achievements, uploads, now, inflight>>

\* a faulty logout that forgets the teacher keys and the flag
logout_StudentKeysOnly ==
    /\ session' = [k \in DOMAIN session \ {"student_id", "student_name", "student_dept"}
                       |-> session[k]]
    /\ resp' = redirect("/logout", "GET", "home")
    /\ UNCHANGED <<students, teachers, achievements, uploads, now, inflight>>

logout ==
    /\ session' = EmptyMapping
    /\ resp' = redirect("/logout", "GET", "home")
    /\ UNCHANGED <<students, teachers, achievements, uploads, now, inflight>>

-----------------------------------------------------------------------------
(* Registration, app.py 172-261.  salt: the fresh salt drawn by               *)
(* generate_password_hash; db_up = FALSE: the commit raises.                  *)

student_new_get ==
    /\ resp' = render_template("/student-new", "GET", "student_new_2.html",
                               NoMessage, NoSuccess, EmptyMapping)
    /\ UNCHANGED <<students, teachers, achievements, uploads, session, now, inflight>>

\* faulty variant: the new record replaces the table
student_new_post_Overwrite(form, salt, db_up) ==
    /\ students' = {Student(form, generate_password_hash(Get(form, "password"), salt))}
    /\ resp' = redirect("/student-new", "POST", "student")
    /\ UNCHANGED <<teachers, achievements, uploads, session, now, inflight>>

student_new_post(form, salt, db_up) ==
    LET hashed == hash_password(Get(form, "password"), salt)
        student_obj == Student(form, hashed.value)
    IN  /\ IF hashed.raised = "ValueError"
           THEN /\ resp' = render_template("/student-new", "POST", "student_new_2.html",
                                           PasswordEmpty, NoSuccess, EmptyMapping)
                /\ UNCHANGED students
           ELSE IF db_up /\ StudentInsertOk(students, student_obj)
           THEN /\ students' = students \cup {student_obj}
                /\ resp' = redirect("/student-new", "POST", "student")
           ELSE \* db.session.rollback()
                /\ resp' = render_template("/student-new", "POST", "student_new_2.html",
                                           DatabaseError, NoSuccess, EmptyMapping)
                /\ UNCHANGED students
        /\ UNCHANGED <<teachers, achievements, uploads, session, now, inflight>>

teacher_new_get ==
    /\ resp' = render_template("/teacher-new", "GET", "teacher_new_2.html",
                               NoMessage, NoSuccess, EmptyMapping)
    /\ UNCHANGED <<students, teachers, achievements, uploads, session, now, inflight>>

teacher_new_post(form, salt, db_up) ==
    LET hashed == hash_password(Get(form, "password"), salt)
        teacher_obj == Teacher(form, hashed.value)
    IN  /\ IF hashed.raised = "ValueError"
           THEN /\ resp' = render_template("/teacher-new", "POST", "teacher_new_2.html",
                                           PasswordEmpty, NoSuccess, EmptyMapping)
                /\ UNCHANGED teachers
           ELSE IF db_up /\ TeacherInsertOk(teachers, teacher_obj)
           THEN /\ teachers' = teachers \cup {teacher_obj}
                /\ resp' = redirect("/teacher-new", "POST", "teacher")
           ELSE \* db.session.rollback()
                /\ resp' = render_template("/teacher-new", "POST", "teacher_new_2.html",
                                           DatabaseError, NoSuccess, EmptyMapping)
                /\ UNCHANGED teachers
        /\ UNCHANGED <<students, achievements, uploads, session, now, inflight>>

-----------------------------------------------------------------------------
(* Registration served by concurrent workers, app.py 172-261.  A request is *)
(* taken and its password hashed; then db.session.add and commit run as one *)
(* transaction of the database, which enforces the table's constraints; then *)
(* the response is returned.  Steps of different workers interleave.         *)

Workers == {1, 2}

Idle == [pc |-> "idle"]

\* the worker holds the record to insert
Adding(route, obj) == [pc |-> "commit", route |-> route, obj |-> obj]

\* the worker holds the response to return
Returning(route, obj, response) ==
    [pc |-> "return", route |-> route, obj |-> obj, response |-> response]

student_new_begin(w, form, salt) ==
    LET hashed == hash_password(Get(form, "password"), salt)
    IN  /\ inflight[w] = Idle
        /\ inflight' =
               [inflight EXCEPT ![w] =
                   IF hashed.raised = "ValueError"
                   THEN Returning("/student-new", << >>,
                                  render_template("/student-new", "POST",
                                                  "student_new_2.html", PasswordEmpty,
                                                  NoSuccess, EmptyMapping))
                   ELSE Adding("/student-new", Student(form, hashed.value))]
        /\ UNCHANGED <<students, teachers, achievements, uploads, session, now, resp>>

\* faulty variant: the table has lost its constraints
student_new_commit_NoConstraint(w, db_up) ==
    /\ inflight[w].pc = "commit"
    /\ inflight[w].route = "/student-new"
    /\ students' = students \cup {inflight[w].obj}
    /\ inflight' = [inflight EXCEPT ![w] =
                       Returning("/student-new", inflight[w].obj,
                                 redirect("/student-new", "POST", "student"))]
    /\ UNCHANGED <<teachers, achievements, uploads, session, now, resp>>

student_new_commit(w, db_up) ==
    /\ inflight[w].pc = "commit"
    /\ inflight[w].route = "/student-new"
    /\ IF db_up /\ StudentInsertOk(students, inflight[w].obj)
       THEN /\ students' = students \cup {inflight[w].obj}
            /\ inflight' = [inflight EXCEPT ![w] =
                               Returning("/student-new", inflight[w].obj,
                                         redirect("/student-new", "POST", "student"))]
       ELSE \* db.session.rollback()
            /\ UNCHANGED students
            /\ inflight' = [inflight EXCEPT ![w] =
                               Returning("/student-new", inflight[w].obj,
                                         render_template("/student-new", "POST",
                                                         "student_new_2.html",
                                                         DatabaseError, NoSuccess,
                                                         EmptyMapping))]
    /\ UNCHANGED <<teachers, achievements, uploads, session, now, resp>>

teacher_new_begin(w, form, salt) ==
    LET hashed == hash_password(Get(form, "password"), salt)
    IN  /\ inflight[w] = Idle
        /\ inflight' =
               [inflight EXCEPT ![w] =
                   IF hashed.raised = "ValueError"
                   THEN Returning("/teacher-new", << >>,
                                  render_template("/teacher-new", "POST",
                                                  "teacher_new_2.html", PasswordEmpty,
                                                  NoSuccess, EmptyMapping))
                   ELSE Adding("/teacher-new", Teacher(form, hashed.value))]
        /\ UNCHANGED <<students, teachers, achievements, uploads, session, now, resp>>

teacher_new_commit(w, db_up) ==
    /\ inflight[w].pc = "commit"
    /\ inflight[w].route = "/teacher-new"
    /\ IF db_up /\ TeacherInsertOk(teachers, inflight[w].obj)
       THEN /\ teachers' = teachers \cup {inflight[w].obj}
            /\ inflight' = [inflight EXCEPT ![w] =
                               Returning("/teacher-new", inflight[w].obj,
                                         redirect("/teacher-new", "POST", "teacher"))]
       ELSE \* db.session.rollback()
            /\ UNCHANGED teachers
            /\ inflight' = [inflight EXCEPT ![w] =
                               Returning("/teacher-new", inflight[w].obj,
                                         render_template("/teacher-new", "POST",
                                                         "teacher_new_2.html",
                                                         DatabaseError, NoSuccess,
                                                         EmptyMapping))]
    /\ UNCHANGED <<students, achievements, uploads, session, now, resp>>

\* the worker returns its response and is free again
registration_return(w) ==
    /\ inflight[w].pc = "return"
    /\ resp' = inflight[w].response
    /\ inflight' = [inflight EXCEPT ![w] = Idle]
    /\ UNCHANGED <<students, teachers, achievements, uploads, session, now>>

-----------------------------------------------------------------------------
(* Achievement submission, app.py 269-355.                                    *)
(* files: request.files; db_fault: which database call raises, if any         *)
(* ("query": the student lookup, "commit": the insert).                       *)

\* line 271: the request is turned away to the teacher login
\* faulty guard: any logged-in session passes
no_teacher_session_LoggedInOnly == ~session_logged_in

no_teacher_session == ~session_logged_in \/ ~Truthy(session_get("teacher_id"))

submit_achievements_get ==
    /\ IF no_teacher_session
       THEN resp' = redirect("/submit_achievements", "GET", "teacher")
       ELSE resp' = redirect_with("/submit_achievements", "GET", "teacher-dashboard",
                                  [success |-> "Achievement submitted successfully!"])
    /\ UNCHANGED <<students, teachers, achievements, uploads, session, now, inflight>>

SuccessMessage(student_name) ==
    <<"Achievement of ", student_name, " has been successfully registered!!">>

\* the answers of a POST: the response, the rows and the stored files after it
submit_achievements_outcomes(form, files, db_fault) ==
    LET teacher_id == session_get("teacher_id")
        student_id == Get(form, "student_id")
        found == StudentQuery(student_id)
        attached == "certificate" \in DOMAIN files /\ files["certificate"] # << >>
        filename == files["certificate"]
        secure_name == strftime(now) \o <<"_">> \o secure_filename(filename)
        saved == attached /\ allowed_file(filename)
        certificate_path == IF saved THEN <<UploadsPrefix \o secure_name>> ELSE << >>
        team_given ==
            /\ "team_size" \in DOMAIN form
            /\ form["team_size"] # << >>
            /\ strip(form["team_size"], Whitespace) # << >>
        team_parsed == int(form["team_size"])
        team_size == IF team_given THEN <<team_parsed.value>> ELSE << >>
        date_given ==
            "achievement_date" \in DOMAIN form /\ form["achievement_date"] # << >>
        date_parsed == strptime(form["achievement_date"])
        achievement ==
            Achievement(Len(achievements) + 1, student_id, teacher_id,
                        date_parsed.value, certificate_path, team_size, form, now)
        page(error) ==
            render_template("/submit_achievements", "POST", "submit_achievements.html",
                            error, NoSuccess, EmptyMapping)
        \* file.save(...) has run
        file_saved == IF saved THEN uploads \cup {secure_name} ELSE uploads
        outcome(response, rows, files_stored) ==
            [resp |-> response, achievements |-> rows, uploads |-> files_stored]
    IN  IF no_teacher_session
        THEN {outcome(redirect("/submit_achievements", "POST", "teacher"),
                      achievements, uploads)}
        ELSE IF db_fault = "query"
        THEN {outcome(unhandled("/submit_achievements", "POST", "OperationalError"),
                      achievements, uploads)}
        ELSE IF found = {}
        THEN {outcome(page(StudentMissing), achievements, uploads)}
        ELSE IF attached /\ ~allowed_file(filename)
        THEN {outcome(page(InvalidFileType), achievements, uploads)}
        ELSE IF team_given /\ team_parsed.raised = "ValueError"
        THEN {outcome(unhandled("/submit_achievements", "POST", "ValueError"),
                      achievements, file_saved)}
        ELSE IF ~date_given
        THEN {outcome(page(DateRequired), achievements, file_saved)}
        ELSE IF date_parsed.raised = "ValueError"
        THEN {outcome(page(InvalidDateFormat), achievements, file_saved)}
        ELSE IF db_fault # "commit" /\ AchievementInsertOk(achievement)
        THEN {outcome(render_template(
                          "/submit_achievements", "POST", "submit_achievements.html",
                          NoMessage, SuccessMessage(Val(student_obj.student_name)),
                          EmptyMapping),
                      Append(achievements, achievement), file_saved) :
                  student_obj \in found}
        ELSE \* db.session.rollback()
             {outcome(page(SubmitError), achievements, file_saved)}

submit_achievements_post(form, files, db_fault) ==
    /\ \E after \in submit_achievements_outcomes(form, files, db_fault) :
           /\ resp' = after.resp
           /\ achievements' = after.achievements
           /\ uploads' = after.uploads
    /\ UNCHANGED <<students, teachers, session, now, inflight>>

-----------------------------------------------------------------------------
(* Views, app.py 358-445 *)

StudentData ==
    [id |-> session_get("student_id"), name |-> session_get("student_name"),
     dept |-> session_get("student_dept")]

student_achievements ==
    /\ IF ~session_logged_in
       THEN resp' = redirect("/student-achievements", "GET", "student")
       ELSE resp' = render_template("/student-achievements", "GET",
                                    "student_achievements_1.html", NoMessage, NoSuccess,
                                    [student |-> StudentData])
    /\ UNCHANGED <<students, teachers, achievements, uploads, session, now, inflight>>

student_dashboard ==
    /\ IF ~session_logged_in
       THEN resp' = redirect("/student-dashboard", "GET", "student")
       ELSE resp' = render_template("/student-dashboard", "GET",
                                    "student_dashboard.html", NoMessage, NoSuccess,
                                    [student |-> StudentData])
    /\ UNCHANGED <<students, teachers, achievements, uploads, session, now, inflight>>

\* faulty query: the filter on teacher_id is dropped
AchievementsOf_AllRows(teacher_id) == 1..Len(achievements)

\* Achievement.query.filter_by(teacher_id=teacher_id): positions of the rows
AchievementsOf(teacher_id) ==
    {i \in 1..Len(achievements) : achievements[i].teacher_id = Col(teacher_id)
                                   /\ teacher_id # None}

\* faulty ordering: ORDER BY key ASC
OrderByDesc_Ascending(S, key) ==
    {q \in [1..Cardinality(S) -> S] :
        /\ \A i, j \in 1..Cardinality(S) : i # j => q[i] # q[j]
        /\ \A i, j \in 1..Cardinality(S) : i < j => key[q[i]] <= key[q[j]]}

\* the orders in which ORDER BY key DESC may return the rows S (rows with
\* equal keys come in an order the database chooses)
OrderByDesc(S, key) ==
    {q \in [1..Cardinality(S) -> S] :
        /\ \A i, j \in 1..Cardinality(S) : i # j => q[i] # q[j]
        /\ \A i, j \in 1..Cardinality(S) : i < j => key[q[i]] >= key[q[j]]}

Min(a, b) == IF a <= b THEN a ELSE b

RecentLimit == 5

CreatedAtKey ==
    [i \in 1..Len(achievements) |-> seconds_of(achievements[i].created_at[1])]

AchievementDateKey ==
    [i \in 1..Len(achievements) |-> toordinal(achievements[i].achievement_date[1])]

Rows(q) == [k \in 1..Len(q) |-> achievements[q[k]]]

\* faulty dashboard: the distinct students are counted over every teacher's rows
teacher_dashboard_CountsAllStudents(db_up) ==
    LET teacher_id == session_get("teacher_id")
        mine == AchievementsOf(teacher_id)
        teacher_data == [id |-> teacher_id, name |-> session_get("teacher_name"),
                         dept |-> session_get("teacher_dept")]
        total_achievements == Cardinality(mine)
        students_managed == Cardinality({achievements[i].student_id : i \in 1..Len(achievements)})
        one_week_ago == toordinal(date_of(now)) - 7
        this_week_count ==
            Cardinality({i \in mine : AchievementDateKey[i] >= one_week_ago})
        stats == [total_achievements |-> total_achievements,
                  students_managed |-> students_managed,
                  this_week |-> this_week_count]
    IN  /\ IF ~session_logged_in
           THEN resp' = redirect("/teacher-dashboard", "GET", "teacher")
           ELSE IF ~db_up
           THEN resp' = unhandled("/teacher-dashboard", "GET", "OperationalError")
           ELSE \E q \in OrderByDesc(mine, CreatedAtKey) :
                    resp' = render_template(
                                "/teacher-dashboard", "GET", "teacher_dashboard.html",
                                NoMessage, NoSuccess,
                                [teacher |-> teacher_data, stats |-> stats,
                                 recent_entries |->
                                     Rows(SubSeq(q, 1, Min(RecentLimit, Len(q))))])
        /\ UNCHANGED <<students, teachers, achievements, uploads, session, now, inflight>>

teacher_dashboard(db_up) ==
    LET teacher_id == session_get("teacher_id")
        mine == AchievementsOf(teacher_id)
        teacher_data == [id |-> teacher_id, name |-> session_get("teacher_name"),
                         dept |-> session_get("teacher_dept")]
        total_achievements == Cardinality(mine)
        students_managed == Cardinality({achievements[i].student_id : i \in mine})
        one_week_ago == toordinal(date_of(now)) - 7
        this_week_count ==
            Cardinality({i \in mine : AchievementDateKey[i] >= one_week_ago})
        stats == [total_achievements |-> total_achievements,
                  students_managed |-> students_managed,
                  this_week |-> this_week_count]
    IN  /\ IF ~session_logged_in
           THEN resp' = redirect("/teacher-dashboard", "GET", "teacher")
           ELSE IF ~db_up
           THEN resp' = unhandled("/teacher-dashboard", "GET", "OperationalError")
           ELSE \E q \in OrderByDesc(mine, CreatedAtKey) :
                    resp' = render_template(
                                "/teacher-dashboard", "GET", "teacher_dashboard.html",
                                NoMessage, NoSuccess,
                                [teacher |-> teacher_data, stats |-> stats,
                                 recent_entries |->
                                     Rows(SubSeq(q, 1, Min(RecentLimit, Len(q))))])
        /\ UNCHANGED <<students, teachers, achievements, uploads, session, now, inflight>>

all_achievements(db_up) ==
    LET teacher_id == session_get("teacher_id")
        mine == AchievementsOf(teacher_id)
    IN  /\ IF ~session_logged_in
           THEN resp' = redirect("/all-achievements", "GET", "teacher")
           ELSE IF ~db_up
           THEN resp' = unhandled("/all-achievements", "GET", "OperationalError")
           ELSE \E q \in OrderByDesc(mine, AchievementDateKey) :
                    resp' = render_template(
                                "/all-achievements", "GET", "all_achievements.html",
                                NoMessage, NoSuccess, [achievements |-> Rows(q)])
        /\ UNCHANGED <<students, teachers, achievements, uploads, session, now, inflight>>

-----------------------------------------------------------------------------
(* Static pages, app.py 105-112 and 264-266 *)

home ==
    /\ resp' = render_template("/", "GET", "home.html", NoMessage, NoSuccess, EmptyMapping)
    /\ UNCHANGED <<students, teachers, achievements, uploads, session, now, inflight>>

index ==
    /\ resp' = render_template("/index", "GET", "index.html",
                               NoMessage, NoSuccess, EmptyMapping)
    /\ UNCHANGED <<students, teachers, achievements, uploads, session, now, inflight>>

teacher_achievements ==
    /\ resp' = render_template("/teacher-achievements", "GET",
                               "teacher_achievements_2.html",
                               NoMessage, NoSuccess, EmptyMapping)
    /\ UNCHANGED <<students, teachers, achievements, uploads, session, now, inflight>>

-----------------------------------------------------------------------------
(* The clock *)

StartTime ==
    [year |-> 2024, month |-> 2, day |-> 28, hour |-> 9, minute |-> 30, second |-> 0]

\* a day passes; at most MaxDays of them
MaxDays == 1

Tick ==
    /\ toordinal(now) - toordinal(StartTime) < MaxDays
    /\ now' = next_day(now)
    /\ UNCHANGED <<students, teachers, achievements, uploads, session, resp, inflight>>

-----------------------------------------------------------------------------
(* Initial state: empty tables (init_db), empty upload folder, no session *)

NoResponse ==
    [route |-> "", method |-> "", kind |-> "none", target |-> "",
     error |-> NoMessage, success |-> NoSuccess, context |-> EmptyMapping]

Init ==
    /\ students = {}
    /\ teachers = {}
    /\ achievements = << >>
    /\ uploads = {}
    /\ session = EmptyMapping
    /\ now = StartTime
    /\ resp = NoResponse
    /\ inflight = [w \in Workers |-> Idle]

-----------------------------------------------------------------------------
(* Requests of the accounts-and-sessions specification *)

StudentForm(student_id, email, password) ==
    [student_name |-> "Asha Rao", student_id |-> student_id, email |-> email,
     phone_number |-> "5550101", password |-> password, student_gender |-> "F",
     student_dept |-> "CSE"]

TeacherForm(teacher_id, email, password) ==
    [teacher_name |-> "Ravi Iyer", teacher_id |-> teacher_id, email |-> email,
     phone_number |-> "5550202", password |-> password, teacher_gender |-> "M",
     teacher_dept |-> "ECE"]

Passwords == {"pw-one", "pw-two"}

StudentNewForms ==
    {StudentForm("S1", "s1@ams.edu", "pw-one"), StudentForm("S1", "s2@ams.edu", "pw-two"),
     StudentForm("S2", "s1@ams.edu", "pw-two"), StudentForm("S2", "s2@ams.edu", "pw-one"),
     StudentForm("S1", "s1@ams.edu", "")}
    \cup {Without(StudentForm("S2", "s2@ams.edu", "pw-one"), k) :
             k \in {"password", "email", "student_name", "student_id"}}

TeacherNewForms ==
    {TeacherForm("T1", "t1@ams.edu", "pw-one"), TeacherForm("T1", "t2@ams.edu", "pw-two"),
     TeacherForm("T2", "t1@ams.edu", "pw-two"), TeacherForm("T2", "t2@ams.edu", "pw-one"),
     TeacherForm("T1", "t1@ams.edu", "")}
    \cup {Without(TeacherForm("T2", "t2@ams.edu", "pw-one"), k) :
             k \in {"password", "email", "teacher_name", "teacher_id"}}

StudentLoginForms ==
    {[sname |-> i, password |-> p] : i \in {"S1", "S2"}, p \in Passwords \cup {""}}
    \cup {[sname |-> "S1"], [password |-> "pw-one"]}

TeacherLoginForms ==
    {[tname |-> i, password |-> p] : i \in {"T1", "T2"}, p \in Passwords \cup {""}}
    \cup {[tname |-> "T1"], [password |-> "pw-one"]}

Next ==
    \/ home
    \/ index
    \/ student_get
    \/ \E form \in StudentLoginForms, db_up \in BOOLEAN : student_post(form, db_up)
    \/ teacher_get
    \/ \E form \in TeacherLoginForms, db_up \in BOOLEAN : teacher_post(form, db_up)
    \/ logout
    \/ student_new_get
    \/ \E form \in StudentNewForms, salt \in Salts, db_up \in BOOLEAN :
           student_new_post(form, salt, db_up)
    \/ teacher_new_get
    \/ \E form \in TeacherNewForms, salt \in Salts, db_up \in BOOLEAN :
           teacher_new_post(form, salt, db_up)
    \/ teacher_achievements
    \/ submit_achievements_get
    \/ student_achievements
    \/ student_dashboard
    \/ \E db_up \in BOOLEAN : teacher_dashboard(db_up)
    \/ \E db_up \in BOOLEAN : all_achievements(db_up)
    \/ Tick

Spec == Init /\ [][Next]_vars

-----------------------------------------------------------------------------
(* Requests of the submission specification: one student and one teacher    *)
(* can register; "S2" is an identifier nobody holds                         *)

SubmitForm(student_id, team_size, achievement_date) ==
    [student_id |-> student_id, achievement_type |-> "Hackathon",
     event_name |-> "CodeFest", achievement_date |-> achievement_date,
     organizer |-> "IEEE", position |-> "1st", achievement_description |-> "",
     programming_language |-> "Python", team_size |-> team_size]

TeamSizeTexts == {<<" ">>, <<"4">>, <<"4", "x">>}

ValidDate == <<"2", "0", "2", "4", "-", "0", "2", "-", "2", "0">>

DateTexts == {<< >>, <<"2", "0", "2", "4", "-", "1", "3", "-", "4", "0">>, ValidDate}

NoFiles == EmptyMapping

CertificateFiles ==
    {NoFiles,
     [certificate |-> <<"e", "v", "i", "l", ".", "e", "x", "e">>],
     [certificate |-> <<"C", "e", "r", "t", ".", "P", "D", "F">>],
     [certificate |-> <<".", ".", "/", "m", "y", " ", "c", "e", "r", "t", ".", "j", "p", "e", "g">>]}

\* a submission: the form, the files and the database fault of the request
SubmitRequest(form, files, db_fault) ==
    [form |-> form, files |-> files, db_fault |-> db_fault]

SubmitRequests ==
    {SubmitRequest(SubmitForm(i, t, d), f, "none") :
        i \in {"S1", "S2"}, t \in TeamSizeTexts, d \in DateTexts, f \in CertificateFiles}
    \cup {SubmitRequest(Without(SubmitForm("S1", <<"4">>, ValidDate), k), NoFiles, "none") :
             k \in {"student_id", "team_size", "achievement_date", "event_name"}}
    \cup {SubmitRequest(SubmitForm("S1", << >>, <<"2", "0", "2", "4", "-", "0", "2", "-", "3", "0">>), f, "none") :
             f \in {[certificate |-> << >>], [certificate |-> <<"n", "o", "t", "e", "s">>],
                    [certificate |-> <<"C", "e", "r", "t", ".", "P", "D", "F">>]}}
    \cup {SubmitRequest(SubmitForm("S1", <<"4">>, ValidDate), f, db_fault) :
             f \in {NoFiles, [certificate |-> <<"C", "e", "r", "t", ".", "P", "D", "F">>]}, db_fault \in {"query", "commit"}}
    \* a form that carries a teacher_id field of its own
    \cup {SubmitRequest([teacher_id |-> "T2"] @@ SubmitForm("S1", <<"4">>, ValidDate), NoFiles, "none")}

\* at most MaxAchievements rows are inserted
MaxAchievements == 1

NextSubmit ==
    \/ \E form \in {StudentForm("S1", "s1@ams.edu", "pw-one")}, salt \in Salts :
           student_new_post(form, salt, TRUE)
    \/ \E form \in {TeacherForm("T1", "t1@ams.edu", "pw-one")}, salt \in Salts :
           teacher_new_post(form, salt, TRUE)
    \/ \E password \in Passwords : student_post([sname |-> "S1", password |-> password], TRUE)
    \/ \E password \in Passwords : teacher_post([tname |-> "T1", password |-> password], TRUE)
    \/ logout
    \/ submit_achievements_get
    \/ \E r \in SubmitRequests :
           /\ submit_achievements_post(r.form, r.files, r.db_fault)
           /\ Len(achievements') <= MaxAchievements

SpecSubmit == Init /\ [][NextSubmit]_vars


-----------------------------------------------------------------------------
(* Requests of the dashboard specification: two students and two teachers   *)
(* can register, "S3" is an identifier nobody holds; the achievements of    *)
(* "S1" are dated eight days and those of "S2" seven days before the clock, *)
(* none has a certificate                                                   *)

DashboardRequests ==
    {SubmitRequest(SubmitForm(i, << >>, ValidDate), NoFiles, "none") : i \in {"S1", "S3"}}
    \cup {SubmitRequest(SubmitForm("S2", << >>, <<"2", "0", "2", "4", "-", "0", "2", "-", "2", "1">>),
                        NoFiles, "none")}
    \cup {SubmitRequest(SubmitForm("S1", << >>, ValidDate), NoFiles, "commit")}

\* at most MaxRows rows are inserted
MaxRows == 3

NextDashboard ==
    \/ \E form \in {StudentForm("S1", "s1@ams.edu", "pw-one"),
                    StudentForm("S2", "s2@ams.edu", "pw-one")}, salt \in Salts :
           student_new_post(form, salt, TRUE)
    \/ \E form \in {TeacherForm("T1", "t1@ams.edu", "pw-one"),
                    TeacherForm("T2", "t2@ams.edu", "pw-one")}, salt \in Salts :
           teacher_new_post(form, salt, TRUE)
    \/ \E tname \in {"T1", "T2"} : teacher_post([tname |-> tname, password |-> "pw-one"], TRUE)
    \/ \E r \in DashboardRequests :
           /\ submit_achievements_post(r.form, r.files, r.db_fault)
           /\ Len(achievements') <= MaxRows
    \/ teacher_dashboard(TRUE)
    \/ all_achievements(TRUE)
    \/ student_post([sname |-> "S1", password |-> "pw-one"], TRUE)
    \/ student_dashboard
    \/ student_achievements
    \/ submit_achievements_get
    \/ logout

SpecDashboard == Init /\ [][NextDashboard]_vars

-----------------------------------------------------------------------------
(* Requests of the calendar specification: achievements dated eight and     *)
(* seven days before the first day of the clock and sixteen days after it   *)

WeekDates ==
    {ValidDate,
     <<"2", "0", "2", "4", "-", "0", "2", "-", "2", "1">>,
     <<"2", "0", "2", "4", "-", "0", "3", "-", "1", "5">>}

WeekRequests ==
    {SubmitRequest(SubmitForm("S1", << >>, d), NoFiles, "none") : d \in WeekDates}

\* at most MaxWeekRows rows are inserted
MaxWeekRows == 2

NextWeek ==
    \/ \E form \in {StudentForm("S1", "s1@ams.edu", "pw-one")}, salt \in Salts :
           student_new_post(form, salt, TRUE)
    \/ \E form \in {TeacherForm("T1", "t1@ams.edu", "pw-one"),
                    TeacherForm("T2", "t2@ams.edu", "pw-one")}, salt \in Salts :
           teacher_new_post(form, salt, TRUE)
    \/ \E tname \in {"T1", "T2"} : teacher_post([tname |-> tname, password |-> "pw-one"], TRUE)
    \/ \E r \in WeekRequests :
           /\ submit_achievements_post(r.form, r.files, r.db_fault)
           /\ Len(achievements') <= MaxWeekRows
    \/ teacher_dashboard(TRUE)
    \/ all_achievements(TRUE)
    \/ Tick

SpecWeek == Init /\ [][NextWeek]_vars

-----------------------------------------------------------------------------
(* Requests of the concurrent-registration specification: forms that share *)
(* an identifier, an e-mail, both or neither                                *)

ConcurrentStudentForms ==
    {StudentForm("S1", "s1@ams.edu", "pw-one"), StudentForm("S1", "s2@ams.edu", "pw-two"),
     StudentForm("S2", "s1@ams.edu", "pw-two"), StudentForm("S1", "s1@ams.edu", "")}

ConcurrentTeacherForms ==
    {TeacherForm("T1", "t1@ams.edu", "pw-one"), TeacherForm("T1", "t2@ams.edu", "pw-two"),
     TeacherForm("T2", "t1@ams.edu", "pw-two")}

NextConcurrent ==
    \/ \E w \in Workers, form \in ConcurrentStudentForms, salt \in Salts :
           student_new_begin(w, form, salt)
    \/ \E w \in Workers, db_up \in BOOLEAN : student_new_commit(w, db_up)
    \/ \E w \in Workers, form \in ConcurrentTeacherForms, salt \in Salts :
           teacher_new_begin(w, form, salt)
    \/ \E w \in Workers, db_up \in BOOLEAN : teacher_new_commit(w, db_up)
    \/ \E w \in Workers : registration_return(w)

SpecConcurrent == Init /\ [][NextConcurrent]_vars

-----------------------------------------------------------------------------
(* Properties of login and logout *)

\* the row was stored by a registration with this raw password
StoredFor(row, password) ==
    \E salt \in Salts : row.password = generate_password_hash(password, salt)

StudentFormOf(row) ==
    {form \in StudentNewForms :
        \E salt \in Salts :
            row = Student(form, generate_password_hash(Get(form, "password"), salt))}

TeacherFormOf(row) ==
    {form \in TeacherNewForms :
        \E salt \in Salts :
            row = Teacher(form, generate_password_hash(Get(form, "password"), salt))}

\* every stored identity is the record of one of the registration forms
RowsAreRegistrations ==
    /\ \A row \in students : StudentFormOf(row) # {}
    /\ \A row \in teachers : TeacherFormOf(row) # {}

StudentLoginEstablishesSession ==
    resp'.route = "/student" =>
        \A form \in StudentLoginForms, row \in students :
            /\ row.student_id = Col(Get(form, "sname"))
            /\ Truthy(Get(form, "password"))
            /\ StoredFor(row, Get(form, "password"))
            /\ student_post(form, TRUE)
            => /\ resp' = redirect("/student", "POST", "student-dashboard")
               /\ \A registered \in StudentFormOf(row) :
                      /\ DOMAIN session' = DOMAIN session \cup
                             {"logged_in", "student_id", "student_name", "student_dept"}
                      /\ session'["logged_in"] = TRUE
                      /\ session'["student_id"] = form["sname"]
                      /\ session'["student_name"] = Get(registered, "student_name")
                      /\ session'["student_dept"] = Get(registered, "student_dept")

TeacherLoginEstablishesSession ==
    resp'.route = "/teacher" =>
        \A form \in TeacherLoginForms, row \in teachers :
            /\ row.teacher_id = Col(Get(form, "tname"))
            /\ Truthy(Get(form, "password"))
            /\ StoredFor(row, Get(form, "password"))
            /\ teacher_post(form, TRUE)
            => /\ resp' = redirect("/teacher", "POST", "teacher-dashboard")
               /\ \A registered \in TeacherFormOf(row) :
                      /\ DOMAIN session' = DOMAIN session \cup
                             {"logged_in", "teacher_id", "teacher_name", "teacher_dept"}
                      /\ session'["logged_in"] = TRUE
                      /\ session'["teacher_id"] = form["tname"]
                      /\ session'["teacher_name"] = Get(registered, "teacher_name")
                      /\ session'["teacher_dept"] = Get(registered, "teacher_dept")

\* C1: once S is registered with a non-empty password p, a login POST with S
\* and p sets logged_in, the identifier, and the registered name and
\* department in the session and redirects to the role's dashboard (students
\* by /student, teachers by /teacher); every stored identity is a registered
\* one.
C1_LoginEstablishesSession ==
    /\ []RowsAreRegistrations
    /\ [][StudentLoginEstablishesSession /\ TeacherLoginEstablishesSession]_vars

\* a student and a teacher have both logged in, the teacher last
C1_Witness ==
    /\ resp = redirect("/teacher", "POST", "teacher-dashboard")
    /\ session = [logged_in |-> TRUE,
                  student_id |-> "S1", student_name |-> "Asha Rao",
                  student_dept |-> "CSE",
                  teacher_id |-> "T2", teacher_name |-> "Ravi Iyer",
                  teacher_dept |-> "ECE"]

StoreUnchanged == UNCHANGED <<students, teachers, achievements, uploads, now>>

StudentLoginFailureKeepsSession ==
    resp'.route = "/student" =>
        \A form \in StudentLoginForms :
            /\ \A row \in students :
                   row.student_id = Col(Get(form, "sname")) =>
                       \/ ~Truthy(Get(form, "password"))
                       \/ ~StoredFor(row, Get(form, "password"))
            /\ student_post(form, TRUE)
            => /\ session' = session
               /\ resp' = render_template("/student", "POST", "student.html",
                                          InvalidCredentials, NoSuccess, EmptyMapping)
               /\ StoreUnchanged

TeacherLoginFailureKeepsSession ==
    resp'.route = "/teacher" =>
        \A form \in TeacherLoginForms :
            /\ \A row \in teachers :
                   row.teacher_id = Col(Get(form, "tname")) =>
                       \/ ~Truthy(Get(form, "password"))
                       \/ ~StoredFor(row, Get(form, "password"))
            /\ teacher_post(form, TRUE)
            => /\ session' = session
               /\ resp' = render_template("/teacher", "POST", "teacher.html",
                                          InvalidCredentials, NoSuccess, EmptyMapping)
               /\ StoreUnchanged

\* C2: a login POST whose identifier is unknown, or whose password (empty and
\* absent ones included) is not the one the stored hash was made from, leaves
\* the session and the store as they were and renders the login form with
\* the invalid-credentials error.
C2_FailedLoginKeepsSession ==
    [][StudentLoginFailureKeepsSession /\ TeacherLoginFailureKeepsSession]_vars

\* a student login was refused while the session held a teacher's identity
C2_Witness ==
    /\ resp = render_template("/student", "POST", "student.html",
                              InvalidCredentials, NoSuccess, EmptyMapping)
    /\ students # {}
    /\ session = [logged_in |-> TRUE, teacher_id |-> "T1",
                  teacher_name |-> "Ravi Iyer", teacher_dept |-> "ECE"]

-----------------------------------------------------------------------------
(* Properties of the protected views *)

ActiveStudentSession == session_logged_in /\ Truthy(session_get("student_id"))

ActiveTeacherSession == session_logged_in /\ Truthy(session_get("teacher_id"))

StudentViews == {"/student-dashboard", "/student-achievements"}

TeacherViews == {"/teacher-dashboard", "/all-achievements"}

\* C3: the student views answer a session without a logged-in student
\* identity with a redirect to the student login and render only for an
\* active student session; the teacher views likewise with the teacher login.
C3_RoleGuard ==
    /\ resp.route \in StudentViews =>
           IF ActiveStudentSession
           THEN resp.kind # "redirect"
           ELSE resp = redirect(resp.route, "GET", "student")
    /\ resp.route \in TeacherViews =>
           IF ActiveTeacherSession
           THEN resp.kind # "redirect"
           ELSE resp = redirect(resp.route, "GET", "teacher")

LoginOf ==
    [route \in StudentViews \cup TeacherViews \cup {"/submit_achievements"} |->
        IF route \in StudentViews THEN "student" ELSE "teacher"]

\* the step is a request (the other steps are those of the clock)
IsRequest == now' = now

LogoutClearsSession ==
    IsRequest /\ resp'.route = "/logout" =>
        /\ session' = EmptyMapping
        /\ resp' = redirect("/logout", "GET", "home")
        /\ StoreUnchanged

LoggedOutIsTurnedAway ==
    IsRequest /\ session = EmptyMapping /\ resp'.route \in DOMAIN LoginOf =>
        /\ resp'.kind = "redirect"
        /\ resp'.target = LoginOf[resp'.route]
        /\ session' = EmptyMapping

OnlyLoginOpensSession ==
    session = EmptyMapping /\ session' # EmptyMapping =>
        \/ resp' = redirect("/student", "POST", "student-dashboard")
        \/ resp' = redirect("/teacher", "POST", "teacher-dashboard")

\* C4: logout leaves the session empty and redirects to the home page from
\* any session; while the session is empty every protected route redirects
\* to its login page, and only a successful login makes it non-empty again.
C4_LogoutClearsSession ==
    [][LogoutClearsSession /\ LoggedOutIsTurnedAway /\ OnlyLoginOpensSession]_vars

\* with accounts of both roles registered, an empty session asked for the
\* teacher dashboard
C4_Witness ==
    /\ resp = redirect("/teacher-dashboard", "GET", "teacher")
    /\ session = EmptyMapping
    /\ students # {} /\ teachers # {}

-----------------------------------------------------------------------------
(* Properties of achievement submission *)

SubmitPage(error) ==
    render_template("/submit_achievements", "POST", "submit_achievements.html",
                    error, NoSuccess, EmptyMapping)

\* the one answer of a refused POST: the form with the message, no row
\* inserted and no file stored
Refused(error) ==
    {[resp |-> SubmitPage(error), achievements |-> achievements, uploads |-> uploads]}

StudentExists(form) ==
    \E row \in students : row.student_id = Col(Get(form, "student_id"))

\* C5: a GET or POST to /submit_achievements from a session that is not an
\* active teacher session is redirected to the teacher login; no row is
\* inserted, no file is written and the session is unchanged.
C5_SubmitNeedsTeacherSession ==
    [][IsRequest /\ resp'.route = "/submit_achievements" /\ ~ActiveTeacherSession
       => /\ resp' = redirect("/submit_achievements", resp'.method, "teacher")
          /\ resp'.method \in {"GET", "POST"}
          /\ UNCHANGED <<students, teachers, achievements, uploads, session, now>>]_vars

\* a logged-in student, no teacher, had a submission turned away
C5_Witness ==
    /\ resp = redirect("/submit_achievements", "POST", "teacher")
    /\ ActiveStudentSession
    /\ ~ActiveTeacherSession

\* C6: every Achievement row's student_id is the identifier of a stored
\* Student and its teacher_id the identifier of a stored Teacher.
C6_ReferentialIntegrity ==
    \A i \in 1..Len(achievements) :
        /\ \E row \in students : row.student_id = achievements[i].student_id
        /\ \E row \in teachers : row.teacher_id = achievements[i].teacher_id

\* a row for student S1 entered by teacher T1 is stored
C6_Witness ==
    /\ Len(achievements) = 1
    /\ achievements[1].student_id = <<"S1">>
    /\ achievements[1].teacher_id = <<"T1">>

UnknownStudentRejected ==
    ActiveTeacherSession =>
        \A r \in SubmitRequests :
            r.db_fault = "none" /\ ~StudentExists(r.form)
            => submit_achievements_outcomes(r.form, r.files, r.db_fault)
                   = Refused(StudentMissing)

\* C7: a POST /submit_achievements from a teacher session (database
\* reachable) whose student_id matches no stored Student leaves the
\* achievements unchanged and renders the form with the "does not exist"
\* message, whatever the other fields and the attachment are.
C7_UnknownStudentRejected == UnknownStudentRejected

\* a teacher's submission for an unknown student was refused while a student
\* is registered
C7_Witness ==
    /\ resp = SubmitPage(StudentMissing)
    /\ ActiveTeacherSession
    /\ students # {}

\* the achievement_date field is present and is not a YYYY-MM-DD date
MalformedDate(form) ==
    /\ "achievement_date" \in DOMAIN form
    /\ form["achievement_date"] # << >>
    /\ strptime(form["achievement_date"]).raised = "ValueError"

MalformedDateRejected ==
    ActiveTeacherSession =>
        \A r \in SubmitRequests :
            r.db_fault = "none" /\ StudentExists(r.form) /\ MalformedDate(r.form)
            => submit_achievements_outcomes(r.form, r.files, r.db_fault)
                   = Refused(InvalidDateFormat)

\* C8: a POST /submit_achievements from a teacher session for a stored
\* student whose achievement_date is present but is not a YYYY-MM-DD date
\* renders the format-error message and changes nothing: no row is inserted
\* and no certificate file is stored, whatever the other fields and the
\* attachment are.
C8_MalformedDateRejected == MalformedDateRejected

Attached(files) == "certificate" \in DOMAIN files /\ files["certificate"] # << >>

\* the text after the last dot, lower-cased, is in the allow-list
HasAllowedExtension(filename) ==
    \E i \in 1..Len(filename) :
        /\ filename[i] = "."
        /\ \A j \in (i + 1)..Len(filename) : filename[j] # "."
        /\ lower(SubSeq(filename, i + 1, Len(filename))) \in ALLOWED_EXTENSIONS

\* <timestamp>_<sanitized name> of an attachment received now
StoredName(files) == strftime(now) \o <<"_">> \o secure_filename(files["certificate"])

DisallowedFileRejected ==
    ActiveTeacherSession =>
        \A r \in SubmitRequests :
            /\ r.db_fault = "none"
            /\ StudentExists(r.form)
            /\ Attached(r.files)
            /\ ~HasAllowedExtension(r.files["certificate"])
            => submit_achievements_outcomes(r.form, r.files, r.db_fault)
                   = Refused(InvalidFileType)

AllowedFileOutcome(files, after) ==
    /\ after.resp.error # InvalidFileType
    /\ StoredName(files) \in after.uploads
    /\ after.achievements # achievements =>
           /\ Len(after.achievements) = Len(achievements) + 1
           /\ SubSeq(after.achievements, 1, Len(achievements)) = achievements
           /\ after.achievements[Len(after.achievements)].certificate_path
                  = <<UploadsPrefix \o StoredName(files)>>

AllowedFileAccepted ==
    ActiveTeacherSession =>
        \A r \in SubmitRequests :
            /\ r.db_fault = "none"
            /\ StudentExists(r.form)
            /\ Attached(r.files)
            /\ HasAllowedExtension(r.files["certificate"])
            => /\ submit_achievements_outcomes(r.form, r.files, r.db_fault) # {}
               /\ \A after \in submit_achievements_outcomes(r.form, r.files, r.db_fault) :
                      AllowedFileOutcome(r.files, after)

\* C9: with a teacher session, a stored student and the database reachable,
\* an attached certificate whose extension (the text after the last dot,
\* compared case-insensitively) is not pdf, png, jpg or jpeg, or whose name
\* has no dot, gets the invalid-file-type message and no file is written and
\* no row inserted; an attachment with an allowed extension in any letter
\* case is not refused for its type, is stored, and a row created by the
\* submission has certificate_path uploads/<timestamp>_<sanitized name>.
C9_CertificateExtension == DisallowedFileRejected /\ AllowedFileAccepted

\* the row was stored with "../my cert.jpeg" attached at 2024-02-28 09:30:00
\* and a later submission was refused for its file type
C9_Witness ==
    /\ Len(achievements) = 1
    /\ achievements[1].certificate_path
           = <<<<"u", "p", "l", "o", "a", "d", "s", "/", "2", "0", "2", "4", "0", "2", "2", "8", "0", "9", "3", "0", "0", "0", "_", "m", "y", "_", "c", "e", "r", "t", ".", "j", "p", "e", "g">>>>
    /\ <<"2", "0", "2", "4", "0", "2", "2", "8", "0", "9", "3", "0", "0", "0", "_", "m", "y", "_", "c", "e", "r", "t", ".", "j", "p", "e", "g">> \in uploads
    /\ resp = SubmitPage(InvalidFileType)

-----------------------------------------------------------------------------
(* Properties of registration *)

UniqueIdentities ==
    /\ \A r1, r2 \in students :
           r1 # r2 => r1.student_id # r2.student_id /\ r1.email # r2.email
    /\ \A r1, r2 \in teachers :
           r1 # r2 => r1.teacher_id # r2.teacher_id /\ r1.email # r2.email

StudentDuplicate(form) ==
    \E row \in students :
        \/ row.student_id = Col(Get(form, "student_id"))
        \/ row.email = Col(Get(form, "email"))

TeacherDuplicate(form) ==
    \E row \in teachers :
        \/ row.teacher_id = Col(Get(form, "teacher_id"))
        \/ row.email = Col(Get(form, "email"))

RegistrationRefused(route, template, message) ==
    /\ resp' = render_template(route, "POST", template, message, NoSuccess, EmptyMapping)
    /\ UNCHANGED <<students, teachers, achievements, uploads, session, now>>

\* the message of a refused duplicate: the password is hashed before the
\* insertion is attempted
RefusalMessage(form) ==
    IF Truthy(Get(form, "password")) THEN DatabaseError ELSE PasswordEmpty

StudentDuplicateRejected ==
    resp'.route = "/student-new" =>
        \A form \in StudentNewForms, salt \in Salts :
            StudentDuplicate(form) /\ student_new_post(form, salt, TRUE)
            => RegistrationRefused("/student-new", "student_new_2.html",
                                   RefusalMessage(form))

TeacherDuplicateRejected ==
    resp'.route = "/teacher-new" =>
        \A form \in TeacherNewForms, salt \in Salts :
            TeacherDuplicate(form) /\ teacher_new_post(form, salt, TRUE)
            => RegistrationRefused("/teacher-new", "teacher_new_2.html",
                                   RefusalMessage(form))

\* C10 (as amended): a registration whose identifier or e-mail is already
\* stored in its table leaves every table, the stored record and its password
\* hash included, as it was; it renders the database-error message when its
\* password is non-empty and the password-empty message otherwise; no two
\* students and no two teachers ever share an identifier or an e-mail.
C10_DuplicateRegistrationRejected ==
    /\ []UniqueIdentities
    /\ [][StudentDuplicateRejected /\ TeacherDuplicateRejected]_vars

StudentDuplicateDatabaseError ==
    resp'.route = "/student-new" =>
        \A form \in StudentNewForms, salt \in Salts :
            StudentDuplicate(form) /\ student_new_post(form, salt, TRUE)
            => RegistrationRefused("/student-new", "student_new_2.html", DatabaseError)

TeacherDuplicateDatabaseError ==
    resp'.route = "/teacher-new" =>
        \A form \in TeacherNewForms, salt \in Salts :
            TeacherDuplicate(form) /\ teacher_new_post(form, salt, TRUE)
            => RegistrationRefused("/teacher-new", "teacher_new_2.html", DatabaseError)

\* C10 (as stated): every registration whose identifier or e-mail is already
\* stored renders the database-error message and leaves the store as it was,
\* and identifiers and e-mails stay unique.
C10_DuplicateAlwaysDatabaseError ==
    /\ []UniqueIdentities
    /\ [][StudentDuplicateDatabaseError /\ TeacherDuplicateDatabaseError]_vars

\* both tables are full and a further student registration was refused
C10_Witness ==
    /\ resp = render_template("/student-new", "POST", "student_new_2.html",
                              DatabaseError, NoSuccess, EmptyMapping)
    /\ Cardinality(students) = 2
    /\ Cardinality(teachers) = 2

-----------------------------------------------------------------------------
(* Properties of the password module *)

StudentEmptyPasswordRefused ==
    resp'.route = "/student-new" =>
        \A form \in StudentNewForms, salt \in Salts, db_up \in BOOLEAN :
            ~Truthy(Get(form, "password")) /\ student_new_post(form, salt, db_up)
            => RegistrationRefused("/student-new", "student_new_2.html", PasswordEmpty)

TeacherEmptyPasswordRefused ==
    resp'.route = "/teacher-new" =>
        \A form \in TeacherNewForms, salt \in Salts, db_up \in BOOLEAN :
            ~Truthy(Get(form, "password")) /\ teacher_new_post(form, salt, db_up)
            => RegistrationRefused("/teacher-new", "teacher_new_2.html", PasswordEmpty)

\* every stored record carries the hash of a non-empty password
NoEmptyPasswordRecord ==
    /\ \A row \in students : \E password \in Passwords : StoredFor(row, password)
    /\ \A row \in teachers : \E password \in Passwords : StoredFor(row, password)

\* a login with an identifier that no record holds does not open a session
UnregisteredLoginFails ==
    /\ resp'.route = "/student" /\ resp'.method = "POST" =>
           \A form \in StudentLoginForms, db_up \in BOOLEAN :
               /\ \A row \in students : row.student_id # Col(Get(form, "sname"))
               /\ student_post(form, db_up)
               => resp'.kind # "redirect" /\ session' = session
    /\ resp'.route = "/teacher" /\ resp'.method = "POST" =>
           \A form \in TeacherLoginForms, db_up \in BOOLEAN :
               /\ \A row \in teachers : row.teacher_id # Col(Get(form, "tname"))
               /\ teacher_post(form, db_up)
               => resp'.kind # "redirect" /\ session' = session

ProbePasswords == Passwords \cup {"", None, "pw-onex", "PW-ONE", "scrypt"}

\* h was made from p: it is not p, verifies p and verifies nothing else
HashOf(h, p) ==
    /\ h # <<p>>
    /\ verify_password(h, p)
    /\ \A q \in ProbePasswords \ {p} : ~verify_password(h, q)

StudentRegistrationHashes ==
    resp'.route = "/student-new" /\ students' # students =>
        \A form \in StudentNewForms, salt \in Salts :
            student_new_post(form, salt, TRUE)
            => \E row \in students' \ students :
                   /\ students' = students \cup {row}
                   /\ HashOf(row.password, Get(form, "password"))

TeacherRegistrationHashes ==
    resp'.route = "/teacher-new" /\ teachers' # teachers =>
        \A form \in TeacherNewForms, salt \in Salts :
            teacher_new_post(form, salt, TRUE)
            => \E row \in teachers' \ teachers :
                   /\ teachers' = teachers \cup {row}
                   /\ HashOf(row.password, Get(form, "password"))

\* the stored value is a hash in the library's format, never a typed password
IsHash(h) == Len(h) = 3 /\ h[1] = "scrypt" /\ \A p \in ProbePasswords : h # <<p>>

NoRawPassword ==
    /\ \A row \in students : IsHash(row.password)
    /\ \A row \in teachers : IsHash(row.password)

\* C12: a successful registration with raw password p stores a value h that
\* is not p, with verify(h, p) true and verify(h, q) false for every other
\* q; no Student or Teacher record ever holds a raw password.
C12_PasswordsStoredHashed ==
    /\ []NoRawPassword
    /\ [][StudentRegistrationHashes /\ TeacherRegistrationHashes]_vars

\* a student registered with "pw-two" and was sent to the login page
C12_Witness ==
    /\ resp = redirect("/student-new", "POST", "student")
    /\ \E row \in students : HashOf(row.password, "pw-two")

-----------------------------------------------------------------------------
(* Properties of the teacher views *)

\* the rows recorded by a teacher, in insertion order
RecordedBy(teacher_id) ==
    SelectSeq(achievements, LAMBDA row : row.teacher_id = <<teacher_id>>)

StudentsIn(rows) == {rows[i].student_id : i \in 1..Len(rows)}

DashboardRendered ==
    /\ IsRequest
    /\ resp'.route = "/teacher-dashboard"
    /\ resp'.kind = "render"
    /\ ActiveTeacherSession

\* C13: for a teacher session with identifier T the dashboard reports
\* total_achievements = the number of rows with teacher_id = T and
\* students_managed = the number of distinct student_id values among them.
C13_DashboardTotals ==
    [][DashboardRendered =>
          LET mine == RecordedBy(session_get("teacher_id"))
          IN  /\ resp'.context.stats.total_achievements = Len(mine)
              /\ resp'.context.stats.students_managed = Cardinality(StudentsIn(mine))]_vars

\* teacher T1 sees three achievements recorded against two students
C13_Witness ==
    /\ resp.route = "/teacher-dashboard"
    /\ resp.kind = "render"
    /\ resp.context.teacher.id = "T1"
    /\ resp.context.stats.total_achievements = 3
    /\ resp.context.stats.students_managed = 2

\* the rows of a sequence dated from first to last, both included
DatedWithin(rows, first, last) ==
    SelectSeq(rows, LAMBDA row : /\ toordinal(row.achievement_date[1]) >= first
                                 /\ toordinal(row.achievement_date[1]) <= last)

\* C14: the dashboard's this_week is the number of the logged-in teacher's
\* achievements dated within the trailing 7 days of the current date, both
\* ends included; achievements dated before that window or after the
\* current date are not counted.
C14_ThisWeekWindow ==
    [][DashboardRendered =>
          LET today == toordinal(date_of(now))
              mine == RecordedBy(session_get("teacher_id"))
          IN  resp'.context.stats.this_week = Len(DatedWithin(mine, today - 7, today))]_vars

CreatedAt(row) == seconds_of(row.created_at[1])

\* row r is listed before row s: created later, or created at the same
\* instant and inserted earlier (ascending) or later (not ascending)
ListedBefore(r, s, ascending) ==
    \/ CreatedAt(r) > CreatedAt(s)
    \/ /\ CreatedAt(r) = CreatedAt(s)
       /\ IF ascending THEN r.id[1] < s.id[1] ELSE r.id[1] > s.id[1]

\* entries are the min(5, n) first rows of mine in that order
MostRecent(entries, mine, ascending) ==
    /\ Len(entries) = Min(5, Len(mine))
    /\ \A i \in 1..Len(entries) : \E k \in 1..Len(mine) : entries[i] = mine[k]
    /\ \A i, j \in 1..Len(entries) :
           i < j => ListedBefore(entries[i], entries[j], ascending)
    /\ \A k \in 1..Len(mine) :
           (\A i \in 1..Len(entries) : entries[i] # mine[k])
           => \A i \in 1..Len(entries) : ListedBefore(entries[i], mine[k], ascending)

\* C15: the dashboard's recent entries are the logged-in teacher's min(5, n)
\* most recently created achievements, by creation timestamp descending,
\* with equal timestamps ordered and cut off by insertion order (read in
\* either direction).
C15_RecentEntries ==
    [][DashboardRendered =>
          LET mine == RecordedBy(session_get("teacher_id"))
              entries == resp'.context.recent_entries
          IN  \/ MostRecent(entries, mine, TRUE)
              \/ MostRecent(entries, mine, FALSE)]_vars

ListingRendered ==
    /\ IsRequest
    /\ resp'.route = "/all-achievements"
    /\ resp'.kind = "render"
    /\ ActiveTeacherSession

AchievementDate(row) == toordinal(row.achievement_date[1])

\* C16: for a teacher session with identifier T, GET /all-achievements lists
\* exactly the rows with teacher_id = T, each once and none of another
\* teacher, by achievement date non-increasing.
C16_AllAchievementsListing ==
    [][ListingRendered =>
          LET mine == RecordedBy(session_get("teacher_id"))
              listed == resp'.context.achievements
          IN  /\ Len(listed) = Len(mine)
              /\ \A k \in 1..Len(mine) : \E i \in 1..Len(listed) : listed[i] = mine[k]
              /\ \A i \in 1..Len(listed) :
                     listed[i].teacher_id = <<session_get("teacher_id")>>
              /\ \A i, j \in 1..Len(listed) :
                     i < j => AchievementDate(listed[i]) >= AchievementDate(listed[j])]_vars

\* teacher T1 recorded a February achievement and then a March one; the
\* listing shows the March one first
C16_Witness ==
    /\ resp.route = "/all-achievements"
    /\ resp.kind = "render"
    /\ Len(achievements) = 2
    /\ achievements[1].teacher_id = <<"T1">>
    /\ achievements[2].teacher_id = <<"T1">>
    /\ AchievementDate(achievements[1]) < AchievementDate(achievements[2])
    /\ resp.context.achievements = <<achievements[2], achievements[1]>>

-----------------------------------------------------------------------------
(* Properties of the store *)

\* C17: no operation, successful or failed, deletes a Student, Teacher or
\* Achievement record or changes one of its attributes (an achievement's
\* creation timestamp included): the tables only grow.
C17_AppendOnlyStore ==
    [][/\ students \subseteq students'
       /\ teachers \subseteq teachers'
       /\ Len(achievements') >= Len(achievements)
       /\ SubSeq(achievements', 1, Len(achievements)) = achievements]_vars

\* two students, two teachers and three achievements are stored, and a
\* further submission has just been refused
C17_Witness ==
    /\ Cardinality(students) = 2
    /\ Cardinality(teachers) = 2
    /\ Len(achievements) = 3
    /\ resp = SubmitPage(StudentMissing)

-----------------------------------------------------------------------------
(* Properties of failure handling *)

\* the request ended in an error: an escaped exception or an error message
Failed == resp'.kind = "exception" \/ resp'.error # NoMessage

\* C18: every request ends in a rendered page or a redirect, no exception
\* escapes a handler, whatever the form (a team_size that is not an integer
\* included) and whichever database call fails; a failed request leaves
\* nothing behind in the tables or the upload folder.
C18_FailureBoundary ==
    /\ [](resp.kind \in {"none", "render", "redirect"})
    /\ [][IsRequest /\ Failed => StoreUnchanged]_vars

-----------------------------------------------------------------------------
(* Properties of the login responses *)

UnknownStudent(form) ==
    \A row \in students : row.student_id # Col(Get(form, "sname"))

WrongStudentPassword(form) ==
    \E row \in students :
        /\ row.student_id = Col(Get(form, "sname"))
        /\ ~Truthy(Get(form, "password")) \/ ~StoredFor(row, Get(form, "password"))

UnknownTeacher(form) ==
    \A row \in teachers : row.teacher_id # Col(Get(form, "tname"))

WrongTeacherPassword(form) ==
    \E row \in teachers :
        /\ row.teacher_id = Col(Get(form, "tname"))
        /\ ~Truthy(Get(form, "password")) \/ ~StoredFor(row, Get(form, "password"))

\* a step of a login with an unknown identifier is a step of every login
\* with a known identifier and a wrong password, and the other way round:
\* same response, same session, same store
StudentLoginsAlike ==
    resp'.route = "/student" /\ resp'.method = "POST" =>
        \A unknown, wrong \in StudentLoginForms :
            UnknownStudent(unknown) /\ WrongStudentPassword(wrong)
            => (student_post(unknown, TRUE) <=> student_post(wrong, TRUE))

TeacherLoginsAlike ==
    resp'.route = "/teacher" /\ resp'.method = "POST" =>
        \A unknown, wrong \in TeacherLoginForms :
            UnknownTeacher(unknown) /\ WrongTeacherPassword(wrong)
            => (teacher_post(unknown, TRUE) <=> teacher_post(wrong, TRUE))

\* C19: on each login route, a request with an identifier that is not
\* registered and a request with a registered identifier and a wrong
\* password get the same response (same form, same invalid-credentials
\* message, same status) and leave the same session.
C19_LoginAntiEnumeration == [][StudentLoginsAlike /\ TeacherLoginsAlike]_vars

\* student S1 is registered, S2 is not, and a login was just refused
C19_Witness ==
    /\ resp = render_template("/student", "POST", "student.html",
                              InvalidCredentials, NoSuccess, EmptyMapping)
    /\ \E row \in students : row.student_id = <<"S1">>
    /\ \A row \in students : row.student_id # <<"S2">>
    /\ session = EmptyMapping

-----------------------------------------------------------------------------
(* Properties of concurrent registration *)

\* two records of one table that share the identifier or the e-mail
Conflicting(route, a, b) ==
    \/ a.email = b.email
    \/ IF route = "/student-new" THEN a.student_id = b.student_id
                                 ELSE a.teacher_id = b.teacher_id

Table(route) == IF route = "/student-new" THEN students ELSE teachers

Committed(w) == inflight[w].pc = "return" /\ inflight[w].response.kind = "redirect"

RolledBack(w) ==
    /\ inflight[w].pc = "return"
    /\ inflight[w].response.kind = "render"
    /\ inflight[w].response.error = DatabaseError

\* of two requests in service that conflict, at most one has committed
AtMostOneCommits ==
    \A w1, w2 \in Workers :
        /\ w1 # w2
        /\ Committed(w1)
        /\ inflight[w2].pc \in {"commit", "return"}
        /\ inflight[w2].route = inflight[w1].route
        /\ inflight[w2].obj # << >>
        /\ Conflicting(inflight[w1].route, inflight[w1].obj, inflight[w2].obj)
        => ~Committed(w2)

\* a commit that meets a conflicting record is rolled back with the
\* database-error message and leaves the tables as they were; a commit that
\* is not rolled back adds its record and is redirected to the login page
CommitDecides ==
    \A w \in Workers :
        inflight[w].pc = "commit" /\ inflight'[w].pc = "return" =>
            LET route == inflight[w].route
                obj == inflight[w].obj
            IN  /\ (\E row \in Table(route) : Conflicting(route, obj, row))
                   => /\ inflight'[w].response.kind = "render"
                      /\ inflight'[w].response.error = DatabaseError
                      /\ UNCHANGED <<students, teachers>>
                /\ inflight'[w].response.kind = "redirect"
                   => /\ inflight'[w].response.target
                             = (IF route = "/student-new" THEN "student" ELSE "teacher")
                      /\ students' \cup teachers' = students \cup teachers \cup {obj}
                /\ inflight'[w].response.kind \in {"render", "redirect"}

\* C20: when two registrations with the same identifier or the same e-mail
\* in one namespace are served concurrently, in every interleaving at most
\* one commits and is redirected to the login page, the other is rolled
\* back with the database-error message, and the store never holds two
\* records with that identifier or e-mail.
C20_ConcurrentRegistration ==
    /\ [](UniqueIdentities /\ AtMostOneCommits)
    /\ [][CommitDecides]_vars

\* two requests for identifier S1 were served together: one committed, the
\* other was rolled back, and one record is stored
C20_Witness ==
    /\ Committed(1)
    /\ RolledBack(2)
    /\ inflight[1].route = "/student-new"
    /\ inflight[2].route = "/student-new"
    /\ inflight[1].obj.student_id = <<"S1">>
    /\ inflight[2].obj.student_id = <<"S1">>
    /\ inflight[1].obj # inflight[2].obj
    /\ students = {inflight[1].obj}

-----------------------------------------------------------------------------
(* Properties of the recorded achievement *)

\* the team_size field is missing, empty or white space
TeamSizeBlank(form) ==
    "team_size" \in DOMAIN form => strip(form["team_size"], Whitespace) = << >>

\* the request passes the four validations and its insert commits: the
\* database answers and the form supplies the NOT NULL columns
Accepted(r) ==
    /\ r.db_fault = "none"
    /\ StudentExists(r.form)
    /\ Attached(r.files) => HasAllowedExtension(r.files["certificate"])
    /\ TeamSizeBlank(r.form) \/ int(r.form["team_size"]).raised = ""
    /\ "achievement_date" \in DOMAIN r.form
    /\ r.form["achievement_date"] # << >>
    /\ ~MalformedDate(r.form)
    /\ \A c \in {"achievement_type", "event_name", "organizer", "position"} :
           c \in DOMAIN r.form

\* the row links the submitted student and the session's teacher and holds
\* the parsed date, the team size and the category fields as submitted
RecordedRow(r, row) ==
    /\ row.student_id = <<r.form["student_id"]>>
    /\ row.teacher_id = <<session["teacher_id"]>>
    /\ row.achievement_date = <<strptime(r.form["achievement_date"]).value>>
    /\ row.team_size =
           IF TeamSizeBlank(r.form) THEN << >> ELSE <<int(r.form["team_size"]).value>>
    /\ \A c \in AchievementFormColumns :
           row[c] = IF c \in DOMAIN r.form THEN <<r.form[c]>> ELSE << >>

\* one row is appended, the rows before it are kept, and the page names
\* the stored student
RecordedOutcome(r, after) ==
    /\ Len(after.achievements) = Len(achievements) + 1
    /\ SubSeq(after.achievements, 1, Len(achievements)) = achievements
    /\ RecordedRow(r, after.achievements[Len(after.achievements)])
    /\ after.resp.kind = "render"
    /\ after.resp.error = NoMessage
    /\ \E s \in students :
           /\ s.student_id = <<r.form["student_id"]>>
           /\ after.resp.success
                  = <<"Achievement of ", s.student_name[1], " has been successfully registered!!">>

\* C21: a POST /submit_achievements from a teacher session with identifier T
\* that passes every validation and whose insert commits adds exactly one
\* Achievement row: student_id is the submitted identifier, teacher_id is the
\* session's T whatever the form holds, achievement_date is the parsed date,
\* team_size is absent when the field is blank or missing, the category
\* fields are as submitted; the earlier rows are unchanged and the success
\* message names that student.
C21_RecordedAchievement ==
    ActiveTeacherSession =>
        \A r \in SubmitRequests :
            Accepted(r) =>
                /\ submit_achievements_outcomes(r.form, r.files, r.db_fault) # {}
                /\ \A after \in submit_achievements_outcomes(r.form, r.files, r.db_fault) :
                       RecordedOutcome(r, after)

\* teacher T1 recorded an achievement of S1 with a blank team size, an empty
\* description and no symposium theme, and the page names the student
C21_Witness ==
    /\ Len(achievements) = 1
    /\ achievements[1].student_id = <<"S1">>
    /\ achievements[1].teacher_id = <<"T1">>
    /\ achievements[1].achievement_date = <<[year |-> 2024, month |-> 2, day |-> 20]>>
    /\ achievements[1].team_size = << >>
    /\ achievements[1].achievement_description = <<"">>
    /\ achievements[1].symposium_theme = << >>
    /\ achievements[1].programming_language = <<"Python">>
    /\ resp.success = <<"Achievement of ", "Asha Rao", " has been successfully registered!!">>

-----------------------------------------------------------------------------
(* Properties of the validation order *)

\* the first of the four checks, in the stated order, that the request fails
FirstFailingCheck(r) ==
    IF ~StudentExists(r.form) THEN "student"
    ELSE IF Attached(r.files) /\ ~HasAllowedExtension(r.files["certificate"])
    THEN "certificate"
    ELSE IF ~TeamSizeBlank(r.form) /\ int(r.form["team_size"]).raised # ""
    THEN "team_size"
    ELSE IF \/ "achievement_date" \notin DOMAIN r.form
            \/ r.form["achievement_date"] = << >>
            \/ MalformedDate(r.form)
    THEN "achievement_date"
    ELSE "none"

\* the request stopped at the check: the form is rendered with that check's
\* message, no row is inserted, and a request stopped before the certificate
\* is stored writes no file
StoppedAt(check, after) ==
    /\ after.resp.kind = "render"
    /\ after.resp.success = NoSuccess
    /\ after.achievements = achievements
    /\ CASE check = "student" ->
                after.resp.error = StudentMissing /\ after.uploads = uploads
         [] check = "certificate" ->
                after.resp.error = InvalidFileType /\ after.uploads = uploads
         [] check = "team_size" ->
                after.resp.error
                    \notin {NoMessage, StudentMissing, InvalidFileType, DateRequired,
                            InvalidDateFormat}
         [] check = "achievement_date" ->
                after.resp.error \in {DateRequired, InvalidDateFormat}

\* C22: the checks of a submission run in the order student exists,
\* certificate extension allowed, team size, achievement date present and
\* parseable; the request stops at the first check it fails, reports that
\* check's message and performs none of the later steps, whatever the later
\* fields hold.
C22_ValidationOrder ==
    ActiveTeacherSession =>
        \A r \in SubmitRequests :
            r.db_fault = "none" /\ FirstFailingCheck(r) # "none"
            => /\ submit_achievements_outcomes(r.form, r.files, r.db_fault) # {}
               /\ \A after \in submit_achievements_outcomes(r.form, r.files, r.db_fault) :
                      StoppedAt(FirstFailingCheck(r), after)

-----------------------------------------------------------------------------
(* Properties of the session across logins of both roles *)

StudentKeys == {"student_id", "student_name", "student_dept"}

TeacherKeys == {"teacher_id", "teacher_name", "teacher_dept"}

\* the session keys outside `written` are the same keys with the same values
KeepsKeysOutside(written) ==
    /\ DOMAIN session \ written = DOMAIN session' \ written
    /\ \A k \in DOMAIN session \ written : session'[k] = session[k]

StudentLoggedIn == IsRequest /\ resp' = redirect("/student", "POST", "student-dashboard")

TeacherLoggedIn == IsRequest /\ resp' = redirect("/teacher", "POST", "teacher-dashboard")

\* a successful login writes logged_in and its own role's keys only
LoginWritesOwnKeys ==
    /\ StudentLoggedIn =>
           /\ KeepsKeysOutside({"logged_in"} \cup StudentKeys)
           /\ {"logged_in"} \cup StudentKeys \subseteq DOMAIN session'
    /\ TeacherLoggedIn =>
           /\ KeepsKeysOutside({"logged_in"} \cup TeacherKeys)
           /\ {"logged_in"} \cup TeacherKeys \subseteq DOMAIN session'

\* a login of the other role on top of an identity leaves both in the session
BothIdentitiesHeld ==
    /\ ActiveStudentSession /\ TeacherLoggedIn
       => ActiveStudentSession' /\ ActiveTeacherSession'
    /\ ActiveTeacherSession /\ StudentLoggedIn
       => ActiveStudentSession' /\ ActiveTeacherSession'

\* a key leaves the session only at logout
OnlyLogoutRemoves ==
    DOMAIN session \ DOMAIN session' # {} => resp' = redirect("/logout", "GET", "home")

\* C23: a successful login of one role writes only logged_in and that role's
\* three identity keys and leaves the other role's keys as they are; so a
\* student login followed by a teacher login without a logout in between
\* leaves a student identity and a teacher identity in the session together,
\* and only logout removes either.
C23_LoginKeepsOtherRole ==
    [][LoginWritesOwnKeys /\ BothIdentitiesHeld /\ OnlyLogoutRemoves]_vars

\* teacher T1 logged in first and student S2 after, with no logout between
C23_Witness ==
    /\ resp = redirect("/student", "POST", "student-dashboard")
    /\ ActiveStudentSession /\ ActiveTeacherSession
    /\ session["teacher_id"] = "T1"
    /\ session["student_id"] = "S2"

-----------------------------------------------------------------------------
(* Properties of the separation between teachers *)

\* the three counters as a function of one teacher's rows and the date
OwnStats(mine, today) ==
    [total_achievements |-> Len(mine),
     students_managed |-> Cardinality(StudentsIn(mine)),
     this_week |-> Len(SelectSeq(mine, LAMBDA row : AchievementDate(row) >= today - 7))]

\* entries are `count` different rows of mine, and no row left out comes
\* before a listed one
DrawnFrom(entries, mine, count) ==
    /\ Len(entries) = count
    /\ \A i \in 1..Len(entries) : \E k \in 1..Len(mine) : entries[i] = mine[k]
    /\ \A i, j \in 1..Len(entries) : i # j => entries[i] # entries[j]

OwnRecentEntries(entries, mine) ==
    /\ DrawnFrom(entries, mine, Min(5, Len(mine)))
    /\ \A i, j \in 1..Len(entries) : i < j => CreatedAt(entries[i]) >= CreatedAt(entries[j])
    /\ \A k \in 1..Len(mine) :
           (\A i \in 1..Len(entries) : entries[i] # mine[k])
           => \A i \in 1..Len(entries) : CreatedAt(entries[i]) >= CreatedAt(mine[k])

OwnListing(listed, mine) ==
    /\ DrawnFrom(listed, mine, Len(mine))
    /\ \A i, j \in 1..Len(listed) :
           i < j => AchievementDate(listed[i]) >= AchievementDate(listed[j])

\* what a teacher is shown is determined by that teacher's own rows
ShownFromOwnRows ==
    LET mine == RecordedBy(session_get("teacher_id"))
    IN  /\ DashboardRendered =>
               /\ resp'.context.stats = OwnStats(mine, toordinal(date_of(now)))
               /\ OwnRecentEntries(resp'.context.recent_entries, mine)
        /\ ListingRendered => OwnListing(resp'.context.achievements, mine)

\* a submission leaves the rows of every teacher other than the session's
\* as they are
SubmissionKeepsOthersRows ==
    IsRequest /\ resp'.route = "/submit_achievements" =>
        \A teacher \in teachers :
            teacher.teacher_id # <<session_get("teacher_id")>> =>
                SelectSeq(achievements', LAMBDA row : row.teacher_id = teacher.teacher_id)
                    = SelectSeq(achievements, LAMBDA row : row.teacher_id = teacher.teacher_id)

\* C24: for two distinct teachers T1 and T2, the dashboard counters (total,
\* distinct students, this week), the recent entries and the all-achievements
\* listing shown to T1 are determined by the rows with teacher_id = T1 alone,
\* and a submission under T2's session leaves those rows, and so everything
\* T1 is shown, unchanged: runs that differ only in T2's submissions show T1
\* the same.
C24_TeacherIsolation == [][ShownFromOwnRows /\ SubmissionKeepsOthersRows]_vars

\* teacher T1 is shown one achievement of one student, none of this week,
\* while T2 has recorded two achievements, one of another student this week
C24_Witness ==
    /\ resp.route = "/teacher-dashboard"
    /\ resp.kind = "render"
    /\ resp.context.teacher.id = "T1"
    /\ resp.context.stats
           = [total_achievements |-> 1, students_managed |-> 1, this_week |-> 0]
    /\ Len(achievements) = 3
    /\ Len(RecordedBy("T2")) = 2
    /\ Cardinality(StudentsIn(RecordedBy("T2"))) = 2

====
